---- MODULE Spec2Model ----
(***************************************************************************)
(* Model of gotham's http::query_string: the splitter (split,              *)
(* QueryStringMapping) and the typed extraction protocol                   *)
(* (FromQueryString for scalars, Option<T> and Vec<T>).                    *)
(*                                                                         *)
(* Strings are sequences of tokens.  A token is one literal character or   *)
(* one %XX escape; '&' and '=' never occur inside an escape, so splitting  *)
(* on them is not affected by the tokenisation.                            *)
(***************************************************************************)
EXTENDS Integers, Sequences, FiniteSets

VARIABLES pc, query, data, panicked, adds, lastKey, prevData, ty, values, result

vars == <<pc, query, data, panicked, adds, lastKey, prevData, ty, values, result>>

----------------------------------------------------------------------------
(* Bounds *)

MaxLen == 6
MaxMapLen == 4
MaxAdds == 2
MaxVals == 2

----------------------------------------------------------------------------
(* Input alphabets *)

Alphabet == {"a", "+", "%61", "%FF", "=", "&"}

RECURSIVE SeqsUpTo(_, _)
SeqsUpTo(S, n) ==
    IF n = 0 THEN {<<>>}
    ELSE LET shorter == SeqsUpTo(S, n - 1)
         IN  shorter \cup {Append(s, x) : s \in {t \in shorter : Len(t) = n - 1}, x \in S}

AddKeys == {<<>>, <<"a">>, <<"%61">>, <<"+">>, <<"%FF">>, <<"a", "%FF">>}

None == [some |-> FALSE, str |-> <<>>]
Some(s) == [some |-> TRUE, str |-> s]

----------------------------------------------------------------------------
(* Percent-decoding collaborator (http::form_url_decode, FormUrlDecoded)   *)

\* One token of raw text to the text it stands for: '+' is a space, %61 is
\* the letter a, every other literal character is itself.
DecodeToken(t) ==
    CASE t = "+"   -> " "
      [] t = "%61" -> "a"
      [] OTHER     -> t

\* %FF is a lone byte 0xFF, which is not valid UTF-8.
InvalidToken(t) == t = "%FF"

form_url_decode(raw) ==
    IF \E i \in 1..Len(raw) : InvalidToken(raw[i])
    THEN <<"Err">>
    ELSE <<"Ok", [i \in 1..Len(raw) |-> DecodeToken(raw[i])]>>

\* FormUrlDecoded::new: Some(decoded value) or None
FormUrlDecodedNew(raw) ==
    LET d == form_url_decode(raw)
    IN  IF d[1] = "Ok" THEN <<"Some", d[2]>> ELSE <<"None">>

----------------------------------------------------------------------------
(* str helpers *)

contains(s, c) == \E i \in 1..Len(s) : s[i] = c

FirstIndex(s, c) == CHOOSE i \in 1..Len(s) : s[i] = c /\ \A j \in 1..(i - 1) : s[j] # c

\* str::split(sep): every segment between separators, at least one segment
RECURSIVE str_split(_, _)
str_split(s, sep) ==
    IF ~contains(s, sep) THEN <<s>>
    ELSE LET i == FirstIndex(s, sep)
         IN  <<SubSeq(s, 1, i - 1)>> \o str_split(SubSeq(s, i + 1, Len(s)), sep)

\* Iterator::next() called for the n-th time on the segments
IterNext(sp, n) == IF n <= Len(sp) THEN <<"Some", sp[n]>> ELSE <<"None">>

----------------------------------------------------------------------------
(* split *)

\* query.split("&") without the filter
PairsNoFilter(q) == str_split(q, "&")
\* query.split("&").filter(|pair| pair.contains("="))
Pairs(q) == SelectSeq(str_split(q, "&"), LAMBDA pair : contains(pair, "="))

\* let mut sp = p.split("="); (sp.next().unwrap(), sp.next().unwrap())
SplitPair(p) ==
    LET sp == str_split(p, "=")
        k  == IterNext(sp, 1)
        v  == IterNext(sp, 2)
    IN  IF k[1] = "None" \/ v[1] = "None" THEN <<"Panic">>
        ELSE <<"Ok", k[2], v[2]>>

\* acc.entry(k).or_insert(Vec::new())
EntryOrInsert(acc, k) ==
    IF k \in DOMAIN acc THEN acc
    ELSE [x \in DOMAIN acc \cup {k} |-> IF x = k THEN <<>> ELSE acc[x]]

\* vec.push(dv) on the entry of k
Push(acc, k, dv) == [acc EXCEPT ![k] = Append(@, dv)]

\* The fold closure with empty values skipped
FoldPairSkipEmpty(st, p) ==
    LET kv == SplitPair(p)
    IN  IF st.panic \/ kv[1] = "Panic" THEN [panic |-> TRUE, data |-> st.data]
        ELSE LET dk == form_url_decode(kv[2])
             IN  IF dk[1] = "Ok"
                 THEN LET acc1 == EntryOrInsert(st.data, dk[2])
                          dv   == FormUrlDecodedNew(kv[3])
                      IN  [panic |-> FALSE,
                           data  |-> IF dv[1] = "Some" /\ dv[2] # <<>>
                                     THEN Push(acc1, dk[2], dv[2]) ELSE acc1]
                 ELSE st
\* The fold closure with the entry created only once the value has decoded
FoldPairKeyAfterValue(st, p) ==
    LET kv == SplitPair(p)
    IN  IF st.panic \/ kv[1] = "Panic" THEN [panic |-> TRUE, data |-> st.data]
        ELSE LET dk == form_url_decode(kv[2])
                 dv == FormUrlDecodedNew(kv[3])
             IN  IF dk[1] = "Ok" /\ dv[1] = "Some"
                 THEN [panic |-> FALSE,
                       data  |-> Push(EntryOrInsert(st.data, dk[2]), dk[2], dv[2])]
                 ELSE st
\* Body of the fold closure for one pair; st = [panic, data]
FoldPair(st, p) ==
    LET kv == SplitPair(p)
    IN  IF st.panic \/ kv[1] = "Panic" THEN [panic |-> TRUE, data |-> st.data]
        ELSE LET dk == form_url_decode(kv[2])
             IN  IF dk[1] = "Ok"
                 THEN LET acc1 == EntryOrInsert(st.data, dk[2])
                          dv   == FormUrlDecodedNew(kv[3])
                      IN  [panic |-> FALSE,
                           data  |-> IF dv[1] = "Some" THEN Push(acc1, dk[2], dv[2]) ELSE acc1]
                 ELSE st

EmptyMap == [x \in {} |-> <<>>]

\* pairs.fold(HashMap::new(), ...)
RECURSIVE Fold(_, _)
Fold(st, ps) == IF ps = <<>> THEN st ELSE Fold(FoldPair(st, Head(ps)), Tail(ps))

\* split(query): [panic, data]
split(q) ==
    IF q.some THEN Fold([panic |-> FALSE, data |-> EmptyMap], Pairs(q.str))
    ELSE [panic |-> FALSE, data |-> EmptyMap]

\* QueryStringMapping::get / contains_key
contains_key(m, key) == key \in DOMAIN m
get(m, key) == IF key \in DOMAIN m THEN <<"Some", m[key]>> ELSE <<"None">>

\* add_unmapped_segment that keeps an existing entry
add_unmapped_segment_keep(m, key) ==
    LET dk == form_url_decode(key)
    IN  IF dk[1] = "Ok" THEN EntryOrInsert(m, dk[2]) ELSE m
\* QueryStringMapping::add_unmapped_segment
add_unmapped_segment(m, key) ==
    LET dk == form_url_decode(key)
    IN  IF dk[1] = "Ok"
        THEN [x \in DOMAIN m \cup {dk[2]} |-> IF x = dk[2] THEN <<>> ELSE m[x]]
        ELSE m

----------------------------------------------------------------------------
(* Textual parsers used by the scalar impls ($t::from_str) and the         *)
(* From<Parse*Error> conversions, which copy the parser's description.     *)

Digits == {"0", "1", "2", "3", "4", "5", "6", "7", "8", "9"}

DigitVal(c) ==
    CASE c = "0" -> 0 [] c = "1" -> 1 [] c = "2" -> 2 [] c = "3" -> 3 [] c = "4" -> 4
      [] c = "5" -> 5 [] c = "6" -> 6 [] c = "7" -> 7 [] c = "8" -> 8 [] c = "9" -> 9

IntEmpty == "cannot parse integer from empty string"
IntInvalidDigit == "invalid digit found in string"
IntOverflow == "number too large to fit in target type"
IntUnderflow == "number too small to fit in target type"
FloatEmpty == "cannot parse float from empty string"
FloatInvalid == "invalid float literal"
\* (the description quotes true and false in backticks)
BoolInvalid == "provided string was not true or false"
InvalidNumber == "Invalid number of values"

\* Digit loop of from_str_radix: checked_mul then checked_add / checked_sub
RECURSIVE IntDigits(_, _, _, _, _)
IntDigits(s, acc, positive, minv, maxv) ==
    IF s = <<>> THEN <<"Ok", acc>>
    ELSE IF Head(s) \notin Digits THEN <<"Err", IntInvalidDigit>>
    ELSE LET m == acc * 10
             n == IF positive THEN m + DigitVal(Head(s)) ELSE m - DigitVal(Head(s))
         IN  IF positive /\ (m > maxv \/ n > maxv) THEN <<"Err", IntOverflow>>
             ELSE IF ~positive /\ (m < minv \/ n < minv) THEN <<"Err", IntUnderflow>>
             ELSE IntDigits(Tail(s), n, positive, minv, maxv)

\* <integer>::from_str for a type with range minv..maxv
ParseInt(s, minv, maxv) ==
    IF s = <<>> THEN <<"Err", IntEmpty>>
    ELSE LET signed    == minv < 0
             hasPlus   == Head(s) = "+"
             hasMinus  == Head(s) = "-" /\ signed
             digits    == IF hasPlus \/ hasMinus THEN Tail(s) ELSE s
         IN  IF digits = <<>> THEN <<"Err", IntEmpty>>
             ELSE IntDigits(digits, 0, ~hasMinus, minv, maxv)

RECURSIVE Pow10(_)
Pow10(n) == IF n = 0 THEN 1 ELSE 10 * Pow10(n - 1)

RECURSIVE DecVal(_, _)
DecVal(s, acc) == IF s = <<>> THEN acc ELSE DecVal(Tail(s), acc * 10 + DigitVal(Head(s)))

\* f64::from_str on decimal literals [sign] digits [. digits]; the value is
\* kept in thousandths.
ParseFloat(s) ==
    IF s = <<>> THEN <<"Err", FloatEmpty>>
    ELSE LET neg    == Head(s) = "-"
             body   == IF Head(s) \in {"+", "-"} THEN Tail(s) ELSE s
             hasDot == contains(body, ".")
             ip     == IF hasDot THEN SubSeq(body, 1, FirstIndex(body, ".") - 1) ELSE body
             fp     == IF hasDot THEN SubSeq(body, FirstIndex(body, ".") + 1, Len(body)) ELSE <<>>
             wellFormed == /\ \A i \in 1..Len(ip) : ip[i] \in Digits
                           /\ \A i \in 1..Len(fp) : fp[i] \in Digits
                           /\ Len(ip) + Len(fp) > 0
                           /\ Len(fp) <= 3
             mag    == DecVal(ip, 0) * 1000 + DecVal(fp, 0) * Pow10(3 - Len(fp))
         IN  IF wellFormed THEN <<"Ok", IF neg THEN 0 - mag ELSE mag>>
             ELSE <<"Err", FloatInvalid>>

ParseBool(s) ==
    IF s = <<"t", "r", "u", "e">> THEN <<"Ok", TRUE>>
    ELSE IF s = <<"f", "a", "l", "s", "e">> THEN <<"Ok", FALSE>>
    ELSE <<"Err", BoolInvalid>>

Scalars == {"String", "bool", "u8", "i8", "f64"}

\* $t::from_str(text)? with the error converted to FromQueryStringError
from_str(t, s) ==
    CASE t = "String" -> <<"Ok", s>>
      [] t = "bool"   -> ParseBool(s)
      [] t = "u8"     -> ParseInt(s, 0, 255)
      [] t = "i8"     -> ParseInt(s, -128, 127)
      [] t = "f64"    -> ParseFloat(s)

----------------------------------------------------------------------------
(* FromQueryString *)

\* values[0]: slice indexing panics when out of bounds
Index0(vs) == IF Len(vs) = 0 THEN <<"Panic">> ELSE <<"Ok", vs[1]>>

\* fstr! with the guard values.len() >= 1
ScalarFromQueryStringAtLeastOne(t, vs) ==
    IF Len(vs) >= 1
    THEN LET v0 == Index0(vs)
         IN  IF v0[1] = "Panic" THEN <<"Panic">> ELSE from_str(t, v0[2])
    ELSE <<"Err", InvalidNumber>>
\* fstr! with the guard values.len() != 2
ScalarFromQueryStringNoCheck(t, vs) ==
    IF Len(vs) # 2
    THEN LET v0 == Index0(vs)
         IN  IF v0[1] = "Panic" THEN <<"Panic">> ELSE from_str(t, v0[2])
    ELSE <<"Err", InvalidNumber>>
\* fstr!: impl FromQueryString for $t
ScalarFromQueryString(t, vs) ==
    IF Len(vs) = 1
    THEN LET v0 == Index0(vs)
         IN  IF v0[1] = "Panic" THEN <<"Panic">> ELSE from_str(t, v0[2])
    ELSE <<"Err", InvalidNumber>>

\* values.windows(1)
windows1(vs) == [i \in 1..Len(vs) |-> <<vs[i]>>]

\* collect that runs to the end and keeps the last Err
RECURSIVE CollectLast(_, _)
CollectLast(rs, acc) ==
    IF rs = <<>> THEN acc
    ELSE LET r == Head(rs)
         IN  IF r[1] = "Ok"
             THEN CollectLast(Tail(rs), IF acc[1] = "Ok" THEN <<"Ok", Append(acc[2], r[2])>> ELSE acc)
             ELSE CollectLast(Tail(rs), r)
\* collect::<Result<Vec<_>, _>>(): the first Err stops the iteration
RECURSIVE Collect(_, _)
Collect(rs, acc) ==
    IF rs = <<>> THEN acc
    ELSE LET r == Head(rs)
         IN  IF r[1] = "Ok" THEN Collect(Tail(rs), <<"Ok", Append(acc[2], r[2])>>)
             ELSE r

\* A type is a sequence of wrappers ending in a scalar: <<"Option", "u8">>
\* is Option<u8>.
RECURSIVE from_query_string(_, _)

\* Option<T> that is None unless there is exactly one value
OptionFromQueryStringOneOnly(T, vs) ==
    IF Len(vs) # 1 THEN <<"Ok", <<"None">>>>
    ELSE LET r == from_query_string(T, vs)
         IN  IF r[1] = "Ok" THEN <<"Ok", <<"Some", r[2]>>>> ELSE r
\* impl FromQueryString for Option<T>
OptionFromQueryString(T, vs) ==
    IF Len(vs) = 0 THEN <<"Ok", <<"None">>>>
    ELSE LET r == from_query_string(T, vs)
         IN  IF r[1] = "Ok" THEN <<"Ok", <<"Some", r[2]>>>> ELSE r

\* Vec<T> reporting the last failing element
VecFromQueryStringLastError(T, vs) ==
    LET ws == windows1(vs)
    IN  CollectLast([i \in 1..Len(ws) |-> from_query_string(T, ws[i])], <<"Ok", <<>>>>)
\* impl FromQueryString for Vec<T>
VecFromQueryString(T, vs) ==
    LET ws == windows1(vs)
    IN  Collect([i \in 1..Len(ws) |-> from_query_string(T, ws[i])], <<"Ok", <<>>>>)

from_query_string(T, vs) ==
    IF Len(T) = 1 THEN ScalarFromQueryString(T[1], vs)
    ELSE IF Head(T) = "Option" THEN OptionFromQueryString(Tail(T), vs)
    ELSE VecFromQueryString(Tail(T), vs)

----------------------------------------------------------------------------
(* Inputs of the conversions *)

Texts == {<<>>, <<"1">>, <<"+", "1">>, <<"2", "5", "5">>, <<"2", "5", "6">>,
          <<"-", "1">>, <<"-", "1", "2", "9">>, <<"1", "2", "8">>,
          <<"t", "r", "u", "e">>, <<"f", "a", "l", "s", "e">>,
          <<"1", ".", "5">>, <<"1", "a">>}

ScalarTypes == {<<t>> : t \in Scalars}
Types == ScalarTypes
         \cup {<<w>> \o T : w \in {"Option", "Vec"}, T \in ScalarTypes}
         \cup {<<w1, w2>> \o T : w1 \in {"Option", "Vec"}, w2 \in {"Option", "Vec"}, T \in ScalarTypes}

NotCalled == <<"NotCalled">>

----------------------------------------------------------------------------
(* State machine *)

InitSplit ==
    /\ pc = "split"
    /\ query \in {None} \cup {Some(s) : s \in SeqsUpTo(Alphabet, MaxLen)}
    /\ data = EmptyMap /\ panicked = FALSE
    /\ adds = 0 /\ lastKey = <<>> /\ prevData = EmptyMap
    /\ ty = <<>> /\ values = <<>> /\ result = NotCalled

InitConvert ==
    /\ pc = "convert"
    /\ ty \in Types
    /\ values \in SeqsUpTo(Texts, MaxVals)
    /\ result = NotCalled
    /\ query = None /\ data = EmptyMap /\ panicked = FALSE
    /\ adds = 0 /\ lastKey = <<>> /\ prevData = EmptyMap

Init == InitSplit \/ InitConvert

InitMap ==
    /\ pc = "split"
    /\ query \in {None} \cup {Some(s) : s \in SeqsUpTo(Alphabet, MaxMapLen)}
    /\ data = EmptyMap /\ panicked = FALSE
    /\ adds = 0 /\ lastKey = <<>> /\ prevData = EmptyMap
    /\ ty = <<>> /\ values = <<>> /\ result = NotCalled

\* let mapping = split(query)
Split ==
    /\ pc = "split"
    /\ LET r == split(query)
       IN  /\ data' = r.data
           /\ panicked' = r.panic
           /\ pc' = IF r.panic THEN "panic" ELSE "mapped"
    /\ UNCHANGED <<query, adds, lastKey, prevData, ty, values, result>>

\* mapping.add_unmapped_segment(key)
AddUnmappedSegment(key) ==
    /\ pc = "mapped"
    /\ adds < MaxAdds
    /\ data' = add_unmapped_segment(data, key)
    /\ prevData' = data
    /\ lastKey' = key
    /\ adds' = adds + 1
    /\ UNCHANGED <<pc, query, panicked, ty, values, result>>

\* let result = T::from_query_string(key, values)
Convert ==
    /\ pc = "convert"
    /\ LET r == from_query_string(ty, values)
       IN  /\ result' = r
           /\ panicked' = (r[1] = "Panic")
           /\ pc' = IF r[1] = "Panic" THEN "panic" ELSE "converted"
    /\ UNCHANGED <<query, data, adds, lastKey, prevData, ty, values>>

Next == Split \/ Convert

Spec == Init /\ [][Next]_vars

NextMap == Split \/ \E key \in AddKeys : AddUnmappedSegment(key)

MapSpec == InitMap /\ [][NextMap]_vars

----------------------------------------------------------------------------
(* Reference reading of a query string, independent of split: the          *)
(* '&'-separated segments by position, and each segment cut at its first   *)
(* '='.                                                                    *)

AmpPos(q) == {i \in 1..Len(q) : q[i] = "&"}
Cuts(q) == {0} \cup AmpPos(q) \cup {Len(q) + 1}
NthCut(q, n) == CHOOSE x \in Cuts(q) : Cardinality({y \in Cuts(q) : y < x}) = n - 1
NSegs(q) == Cardinality(AmpPos(q)) + 1
Seg(q, j) == SubSeq(q, NthCut(q, j) + 1, NthCut(q, j + 1) - 1)

\* the query string without its j-th segment (and one adjoining '&')
RemoveSeg(q, j) ==
    IF NSegs(q) = 1 THEN <<>>
    ELSE IF j = 1 THEN SubSeq(q, NthCut(q, 2) + 1, Len(q))
    ELSE SubSeq(q, 1, NthCut(q, j) - 1) \o SubSeq(q, NthCut(q, j + 1), Len(q))

HasEq(p) == \E i \in 1..Len(p) : p[i] = "="
FirstEq(p) == CHOOSE i \in 1..Len(p) : p[i] = "=" /\ \A j \in 1..(i - 1) : p[j] # "="
RawKey(p) == SubSeq(p, 1, FirstEq(p) - 1)
RawValue(p) == SubSeq(p, FirstEq(p) + 1, Len(p))

KeyDecodesTo(p, k) == HasEq(p) /\ form_url_decode(RawKey(p)) = <<"Ok", k>>
KeyDecodes(p) == HasEq(p) /\ form_url_decode(RawKey(p))[1] = "Ok"
DecodedKey(p) == form_url_decode(RawKey(p))[2]

DecodedKeys(q) == {DecodedKey(Seg(q, j)) : j \in {i \in 1..NSegs(q) : KeyDecodes(Seg(q, i))}}

\* the decoded values, in order of appearance, of the pairs of q whose raw
\* key decodes to k and whose raw value decodes
ValuesInOrder(q, k) ==
    LET idx == SelectSeq([j \in 1..NSegs(q) |-> j],
                         LAMBDA j : /\ KeyDecodesTo(Seg(q, j), k)
                                    /\ form_url_decode(RawValue(Seg(q, j)))[1] = "Ok")
    IN  [i \in 1..Len(idx) |-> form_url_decode(RawValue(Seg(q, idx[i])))[2]]

\* split has returned (or panicked) for Some(query) and nothing else has run
SplitDone == pc \in {"mapped", "panic"} /\ adds = 0
SplitSome == SplitDone /\ query.some

----------------------------------------------------------------------------
(* Claims *)

\* C1: for every query string q and decoded key k, split(Some(q)).get(k) is
\* exactly the decoded values, in left-to-right order, of the pairs that
\* contain '=', whose raw key decodes to k and whose raw value decodes;
\* repeated and differently-escaped occurrences accumulate in one sequence.
C1_GetIsDecodedValuesInOrder ==
    SplitSome =>
        /\ ~panicked
        /\ DOMAIN data = DecodedKeys(query.str)
        /\ \A k \in DOMAIN data : data[k] = ValuesInOrder(query.str, k)

\* C2: a retained pair is split on the first '=' only: the raw key is the
\* text before it and the raw value is all the text after it.
C2_SplitOnFirstEq ==
    SplitSome =>
        \A j \in 1..NSegs(query.str) :
            LET p == Seg(query.str, j)
            IN  HasEq(p) => SplitPair(p) = <<"Ok", RawKey(p), RawValue(p)>>

\* C7: a segment with no '=' is discarded without an error: the mapping
\* equals the one obtained from the query string with that segment removed.
C7_SegmentWithoutEqDiscarded ==
    SplitSome =>
        /\ ~panicked
        /\ \A j \in 1..NSegs(query.str) :
               ~HasEq(Seg(query.str, j)) =>
                   /\ ~split(Some(RemoveSeg(query.str, j))).panic
                   /\ data = split(Some(RemoveSeg(query.str, j))).data

C7_Witness ==
    /\ SplitSome /\ ~panicked
    /\ DOMAIN data # {}
    /\ \E j \in 1..NSegs(query.str) :
           ~HasEq(Seg(query.str, j)) /\ Seg(query.str, j) # <<>>

\* a pair made of a key, one '=' and nothing after it
IsKeyOnly(p) == Len(p) >= 1 /\ p[Len(p)] = "=" /\ FirstEq(p) = Len(p)

\* C8: a pair whose value part is empty (key followed by '=' and nothing
\* after) is not dropped: it appends an empty-string value to the sequence of
\* its key, so the key is present with a value whose content is "".
C8_EmptyValueKept ==
    SplitSome =>
        \A k \in DecodedKeys(query.str) :
            /\ k \in DOMAIN data
            /\ Cardinality({i \in 1..Len(data[k]) : data[k][i] = <<>>})
                 >= Cardinality({j \in 1..NSegs(query.str) :
                                    /\ HasEq(Seg(query.str, j))
                                    /\ IsKeyOnly(Seg(query.str, j))
                                    /\ KeyDecodesTo(Seg(query.str, j), k)})

C8_Witness ==
    /\ SplitSome
    /\ \E j \in 1..NSegs(query.str) :
           LET p == Seg(query.str, j)
           IN  /\ HasEq(p) /\ IsKeyOnly(p) /\ KeyDecodes(p)
               /\ DecodedKey(p) \in DOMAIN data
               /\ Len(data[DecodedKey(p)]) = 2
               /\ data[DecodedKey(p)][2] = <<>>
               /\ data[DecodedKey(p)][1] # <<>>

\* the value split tries to decode for pair p does not decode
ValueFails(p) == SplitPair(p)[1] = "Ok" /\ FormUrlDecodedNew(SplitPair(p)[3])[1] = "None"

C6_AddUnmappedSegmentOverwrites ==
    (pc = "mapped" /\ adds > 0) =>
        LET dk == form_url_decode(lastKey)
        IN  IF dk[1] = "Ok"
            THEN /\ contains_key(data, dk[2])
                 /\ get(data, dk[2]) = <<"Some", <<>>>>
                 /\ \A k \in (DOMAIN data \cup DOMAIN prevData) \ {dk[2]} :
                        get(data, k) = get(prevData, k)
            ELSE data = prevData

C6_Witness ==
    /\ pc = "mapped" /\ adds = 2
    /\ form_url_decode(lastKey)[1] = "Ok"
    /\ form_url_decode(lastKey)[2] \in DOMAIN prevData
    /\ prevData[form_url_decode(lastKey)[2]] # <<>>
    /\ data[form_url_decode(lastKey)[2]] = <<>>
    /\ \E k \in DOMAIN data : data[k] # <<>>

ConvertDone == pc \in {"converted", "panic"}

Alone(T, vs) == [i \in 1..Len(vs) |-> from_query_string(T, <<vs[i]>>)]

====
